---- MODULE Spec2Model ----
(***************************************************************************)
(* Model of the agent substrate of joesuuf/pokemon-dev:                    *)
(*   - the file-based mailbox, agents/lib/agent_communication.py           *)
(*     (AgentMessenger.send_message / receive_messages / send_response),   *)
(*   - the skill and workflow registry of                                  *)
(*     agents/python/modular_agent_framework.py (ModularAgent).            *)
(*   - the schema gateway, agents/lib/schema_validator.py, the output      *)
(*     builder create_agent_output and the agents' run().                  *)
(* Spec is the mailbox, SpecIO the mailbox on a filesystem that can fail    *)
(* during a send, SpecFS the same with failures during a receive too,      *)
(* SpecConc the mailbox with a send and two receives running concurrently, *)
(* one file operation at a time,                                           *)
(* SpecReg the registry, SpecVal the gateway and the output builder; each  *)
(* leaves the others' variables untouched.                                 *)
(***************************************************************************)
EXTENDS Naturals, Integers, Sequences, FiniteSets, TLC

VARIABLES inbox, outbox, read, issued, last,
          skills, workflows, rlast,
          store, schemas_cache, vlast,
          sender, readers

mvars == <<inbox, outbox, read, issued, last>>
rvars == <<skills, workflows, rlast>>
vvars == <<store, schemas_cache, vlast>>
cvars == <<sender, readers>>
vars == <<inbox, outbox, read, issued, last, skills, workflows, rlast,
          store, schemas_cache, vlast, sender, readers>>

(***************************************************************************)
(* Bounds                                                                  *)
(***************************************************************************)
\* number of send_message calls (uuids drawn) in one behaviour
MaxMsgs == 2

(***************************************************************************)
(* Python and JSON values                                                  *)
(***************************************************************************)
\* Python's None, and the absence of a key in a dict (dict.get gives None)
PyNone == "<None>"
Absent == "<absent>"

\* a Python value inside a payload: type tag and elements
PyVal(t, c) == [t |-> t, c |-> c]

\* a payload argument: a dict of entries (t = "dict") or some other object
PyDict(items) == [t |-> "dict", items |-> items]
PyText == [t |-> "str", items |-> {}]

\* {"status": "ok"}, {"paths": ("src", "lib")}, {"paths": ["src", "lib"]},
\* {"seen": {1, 2}}, and the string "text"
PayloadNative == PyDict({[k |-> "status", v |-> PyVal("str", <<1>>)]})
PayloadTuple == PyDict({[k |-> "paths", v |-> PyVal("tuple", <<1, 2>>)]})
PayloadList == PyDict({[k |-> "paths", v |-> PyVal("list", <<1, 2>>)]})
PayloadSet == PyDict({[k |-> "seen", v |-> PyVal("set", <<1, 2>>)]})

Payloads == {PayloadNative, PayloadTuple, PayloadSet, PyText}

\* json.dump: what the encoder writes for a value; a set is not serialisable
JsonSerializable(v) == v.t \in {"str", "list", "tuple"}

JsonDumpValue(v) ==
  [v EXCEPT !.t = IF v.t \in {"list", "tuple"} THEN "array" ELSE "string"]

JsonDumpPayload(p) ==
  [t |-> "object", items |-> {[k |-> e.k, v |-> JsonDumpValue(e.v)] : e \in p.items}]

\* json.load: arrays come back as lists, strings as str, objects as dicts
JsonLoadValue(v) == [v EXCEPT !.t = IF v.t = "array" THEN "list" ELSE "str"]

JsonLoadPayload(d) ==
  [t |-> "dict", items |-> {[k |-> e.k, v |-> JsonLoadValue(e.v)] : e \in d.items}]

(***************************************************************************)
(* Envelopes and files                                                     *)
(***************************************************************************)
Agents == {"agent1", "agent2"}

MessageTypeEnum == {"request", "response", "notification", "error"}
TypeInputs == {"request", "invalid_type"}
CorrInputs == {PyNone, "", "original-message-123"}

\* mutant: every call draws the same id
Uuid_Reused(n) == "uuid-1"

\* str(uuid.uuid4()): the n-th identifier drawn; distinct draws are distinct
Uuid(n) == <<"uuid-1", "uuid-2", "uuid-3", "uuid-4", "uuid-5", "uuid-6">>[n]

\* mutant: the correlation id is left out of the envelope
BuildMessage_NoCorrelation(self, message_id, to_agent, message_type, payload, correlation_id) ==
  [message_id |-> message_id, from_agent |-> self, to_agent |-> to_agent,
   message_type |-> message_type, payload |-> payload, correlation_id |-> Absent]

\* the dict built by send_message (the timestamp, a wall-clock string that
\* nothing reads back, is left out)
BuildMessage(self, message_id, to_agent, message_type, payload, correlation_id) ==
  [message_id |-> message_id,
   from_agent |-> self,
   to_agent |-> to_agent,
   message_type |-> message_type,
   payload |-> payload,
   correlation_id |-> IF correlation_id \notin {PyNone, ""}
                      THEN correlation_id ELSE Absent]

\* mutant: the schema does not constrain message_type
ValidMessage_AnyType(message) == message.payload.t = "dict"

\* validation against inter-agent-message-schema.json
ValidMessage(message) ==
  /\ message.message_type \in MessageTypeEnum
  /\ message.payload.t = "dict"

\* json.dump(message, f) and json.load(f) on the whole envelope
JsonDump(message) == [message EXCEPT !.payload = JsonDumpPayload(message.payload)]
JsonLoad(doc) == [doc EXCEPT !.payload = JsonLoadPayload(doc.payload)]
CanDump(message) == \A e \in message.payload.items : JsonSerializable(e.v)

NoDoc ==
  [message_id |-> "", from_agent |-> "", to_agent |-> "", message_type |-> "",
   payload |-> [t |-> "object", items |-> {}], correlation_id |-> Absent]

\* a file: a complete JSON document, or one whose write was cut short
File(doc) == [complete |-> TRUE, doc |-> doc]
Partial == [complete |-> FALSE, doc |-> NoDoc]

\* mutant: the file is copied, the original stays
Remove_Nothing(dir, names) == dir

Put(dir, name, file) == [n \in DOMAIN dir \cup {name} |-> IF n = name THEN file ELSE dir[n]]
Remove(dir, names) == [n \in DOMAIN dir \ names |-> dir[n]]
EmptyDir == [n \in {} |-> Partial]

\* how the filesystem answers one send: no failure, or an OSError at
\* open(outbox_file), at mkdir/open(inbox_file), or in the dump to inbox_file
IoFaults == {"outbox_open", "inbox_open", "inbox_dump"}

NoMsg == JsonLoad(NoDoc)

\* the last call: who made it, its arguments, the exception it ended with
\* ("none": it returned), the id or the list it returned, and the failure
\* of the filesystem the call ran into ("ok": none)
Idle ==
  [op |-> "init", by |-> "", to |-> "", mtype |-> "", payload |-> PyText,
   corr |-> PyNone, raised |-> "none", id |-> "", msgs |-> <<>>, mark_read |-> FALSE,
   io |-> "ok"]

(***************************************************************************)
(* ModularAgent: skills, workflows, contexts                               *)
(***************************************************************************)
\* longest skill list of a workflow
MaxSteps == 2

SkillNames == {"skillA", "skillB"}
WorkflowNames == {"audit"}

\* the executables a skill can carry
Functions == {"ret_x1", "ret_y2", "ret_x9", "ret_raw", "see_config", "boom"}

\* workflow.config values: {} and {"timeout": 120}
Configs == {"{}", "{timeout: 120}"}

\* a dict with string keys; values are written as their repr
EmptyDict == [k \in {} |-> ""]
DictOf(k, v) == [x \in {k} |-> v]

\* dict.update(other): keys of other win
Update(d, other) ==
  [k \in DOMAIN d \cup DOMAIN other |-> IF k \in DOMAIN other THEN other[k] ELSE d[k]]

\* d[k] = v
SetItem(d, k, v) == Update(d, DictOf(k, v))

\* dict.get(k): None when the key is missing
Get(d, k) == IF k \in DOMAIN d THEN d[k] ELSE "None"

\* what a call of an executable does with the context it is given: raise, or
\* return a dict, or return something that is not a dict
Returns(isdict, d, raw) ==
  [raised |-> FALSE, isdict |-> isdict, dict |-> d, raw |-> raw, exc |-> "none"]
Raises ==
  [raised |-> TRUE, isdict |-> FALSE, dict |-> EmptyDict, raw |-> "None",
   exc |-> "RuntimeError"]

Call(function, context) ==
  CASE function = "ret_x1" -> Returns(TRUE, DictOf("x", "1"), "None")
    [] function = "ret_y2" -> Returns(TRUE, DictOf("y", "2"), "None")
    [] function = "ret_x9" -> Returns(TRUE, DictOf("x", "9"), "None")
    [] function = "ret_raw" -> Returns(FALSE, EmptyDict, "7")
    [] function = "see_config" ->
         Returns(TRUE, DictOf("seen", Get(context, "workflow_config")), "None")
    [] function = "boom" -> Raises

\* the context argument of a call: not passed (None), or a dict of the caller
NoContext == [given |-> FALSE, dict |-> EmptyDict]
Passed(d) == [given |-> TRUE, dict |-> d]
ContextArgs == {NoContext, Passed(EmptyDict), Passed(DictOf("x", "0"))}

AgentSkill(name, function, enabled) ==
  [name |-> name, function |-> function, enabled |-> enabled]

AgentWorkflow(name, skill_list, config) ==
  [name |-> name, skills |-> skill_list, config |-> config]

SkillLists == UNION {[1..n -> SkillNames] : n \in 0..MaxSteps}

NoSkill == AgentSkill("", "boom", FALSE)
NoWorkflow == AgentWorkflow("", <<>>, "{}")
EmptySkills == [n \in {} |-> NoSkill]
EmptyWorkflows == [n \in {} |-> NoWorkflow]

\* what the last call did: the exception it ended with ("none": it returned),
\* what it returned, the executables it invoked in order, the skill names its
\* warning listed, the executable a registration took the place of, and the
\* caller's context object after the call
RIdle ==
  [op |-> "init", name |-> "", raised |-> "none", isdict |-> FALSE,
   dict |-> EmptyDict, raw |-> "None", invoked |-> <<>>, missing |-> <<>>,
   replaced |-> "", caller |-> NoContext]

(***************************************************************************)
(* Schema gateway: instances, schemas, violations                          *)
(***************************************************************************)
OutputSchema == "agent-output-schema.json"
MessageSchema == "inter-agent-message-schema.json"

\* the documents of the schemas directory, and the names callers ask for
InstalledSchemas == {OutputSchema, MessageSchema}
SchemaNames == {OutputSchema, "missing-schema.json"}

\* agent.category values of the output schema
Categories == {"security", "performance", "seo", "content", "installation"}

\* an instance handed to the validator: an output envelope (kind "object")
\* whose keys may be absent, or null, a list, a string.  agent stands for
\* agent.category, execution for execution.status.
Output(schema_version, category, execution, results) ==
  [kind |-> "object", schema_version |-> schema_version, agent |-> category,
   execution |-> execution, results |-> results]
NotAnObject(kind) ==
  [kind |-> kind, schema_version |-> Absent, agent |-> Absent,
   execution |-> Absent, results |-> Absent]

Instances ==
  {Output(v, c, IF c = Absent THEN Absent ELSE "success", r) :
     v \in {"1.0.0", "123", "invalid-version", Absent},
     c \in {"security", "invalid_category", Absent},
     r \in {"{}", Absent}}
  \cup {NotAnObject(k) : k \in {"null", "list", "string"}}

\* one violated constraint: where in the instance, and which keyword
Violation(path, validator, what) ==
  [path |-> path, validator |-> validator, what |-> what]

\* the constraints of the output schema that the instance violates
Violations(instance) ==
  IF instance.kind # "object"
  THEN {Violation(<<>>, "type", "object")}
  ELSE {Violation(<<>>, "required", k) :
          k \in {f \in {"schema_version", "agent", "execution", "results"} :
                   instance[f] = Absent}}
       \cup (IF instance.schema_version = "123"
             THEN {Violation(<<"schema_version">>, "type", "string")} ELSE {})
       \cup (IF instance.schema_version = "invalid-version"
             THEN {Violation(<<"schema_version">>, "pattern", "version")} ELSE {})
       \cup (IF instance.agent \notin Categories \cup {Absent}
             THEN {Violation(<<"agent", "category">>, "enum", "category")} ELSE {})

\* _format_error: "Validation error at '<path>': <message>"
FormatError(error) ==
  [text |-> "Validation error at", path |-> error.path,
   message |-> <<error.validator, error.what>>]

\* "Validation error: <str(e)>" for any other exception
FormatException(e) ==
  [text |-> "Validation error:", path |-> <<>>, message |-> <<e, "">>]

NoInstance == NotAnObject("")
NoViolation == Violation(<<>>, "", "")

\* the last call of the gateway or of the output builder: its arguments, the
\* exception it ended with, the pair or the envelope it returned, and
\* whether it printed a warning
VIdle ==
  [op |-> "init", instance |-> NoInstance, schema_name |-> "", raised |-> "none",
   ok |-> FALSE, errors |-> <<>>, returned |-> NoInstance, warned |-> FALSE,
   builder |-> "", validated |-> FALSE, reads |-> 0]

(***************************************************************************)
(* Calls in progress: one send_message and two receive_messages            *)
(***************************************************************************)
\* two callers of receive_messages on the inbox of one agent
Readers == {"r1", "r2"}
Consumer == "agent2"

\* a send_message in progress: the envelope, the copy it is at (1 or 2),
\* whether that copy's file is to be opened or written, and how the last
\* call ended
SenderIdle ==
  [pc |-> "idle", message |-> NoDoc, step |-> 1, raised |-> "none", id |-> ""]

\* a receive_messages in progress: the files glob listed and not yet
\* visited, the file being moved, the list built so far; and, of the files
\* visited, those that were complete when listed, those opened while partly
\* written, those whose move failed; and the exception the call ended with
ReaderIdle ==
  [pc |-> "idle", mark_read |-> FALSE, todo |-> <<>>, cur |-> "",
   msgs |-> <<>>, listed |-> {}, partial |-> {}, unmoved |-> {},
   raised |-> "none"]

(***************************************************************************)
(* AgentMessenger                                                          *)
(***************************************************************************)
\* AgentMessenger.__init__ for every agent: empty inbox and outbox (the read
\* directory is made by the first receive that marks a message read)
Init ==
  /\ inbox = [a \in Agents |-> EmptyDir]
  /\ outbox = [a \in Agents |-> EmptyDir]
  /\ read = [a \in Agents |-> EmptyDir]
  /\ issued = 0
  /\ last = Idle
  /\ skills = EmptySkills
  /\ workflows = EmptyWorkflows
  /\ rlast = RIdle
  /\ store = InstalledSchemas
  /\ schemas_cache = {}
  /\ vlast = VIdle
  /\ sender = SenderIdle
  /\ readers = [r \in Readers |-> ReaderIdle]

\* the exception send_message ends with ("none": it returns the id), in the
\* order the code reaches them: validation, open(outbox_file), json.dump,
\* mkdir/open(inbox_file), json.dump
SendRaises(message, io) ==
  IF ~ValidMessage(message) THEN "ValueError"
  ELSE IF io = "outbox_open" THEN "OSError"
  ELSE IF ~CanDump(message) THEN "TypeError"
  ELSE IF io \in {"inbox_open", "inbox_dump"} THEN "OSError"
  ELSE "none"

\* mutant: the outbox copy is written before the envelope is validated
OutboxOpened_BeforeValidation(message, io) == io # "outbox_open"

\* open(outbox_file, 'w') was reached and made the file
OutboxOpened(message, io) == ValidMessage(message) /\ io # "outbox_open"

\* mutant: the inbox copy is written first, whatever becomes of the outbox copy
InboxOpened_BeforeOutbox(message, io) ==
  /\ ValidMessage(message)
  /\ CanDump(message)
  /\ io # "inbox_open"

\* open(inbox_file, 'w') was reached and made the file
InboxOpened(message, io) ==
  /\ OutboxOpened(message, io)
  /\ CanDump(message)
  /\ io # "inbox_open"

\* the call got as far as the operation that fails
FaultReached(message, io) ==
  \/ io = "outbox_open" /\ ValidMessage(message)
  \/ io \in {"inbox_open", "inbox_dump"} /\ ValidMessage(message) /\ CanDump(message)

OutboxWritten(message, io) ==
  IF CanDump(message) THEN File(JsonDump(message)) ELSE Partial

InboxWritten(message, io) ==
  IF io = "ok" THEN File(JsonDump(message)) ELSE Partial

\* send_message; original is the envelope being answered when the call comes
\* from send_response, NoMsg when the caller calls send_message itself
send_message(self, to_agent, message_type, payload, correlation_id, io, original) ==
  /\ issued < MaxMsgs
  /\ LET message_id == Uuid(issued + 1)
         message == BuildMessage(self, message_id, to_agent, message_type,
                                 payload, correlation_id)
         raised == SendRaises(message, io)
         out1 == IF OutboxOpened(message, io)
                 THEN [outbox EXCEPT ![self] =
                         Put(outbox[self], message_id, OutboxWritten(message, io))]
                 ELSE outbox
         in1 == IF InboxOpened(message, io)
                THEN [inbox EXCEPT ![to_agent] =
                        Put(inbox[to_agent], message_id, InboxWritten(message, io))]
                ELSE inbox
     IN /\ issued' = issued + 1
        /\ outbox' = out1
        /\ inbox' = in1
        /\ UNCHANGED read
        /\ last' = [op |-> IF original = NoMsg THEN "send_message" ELSE "send_response",
                    by |-> self, to |-> to_agent, mtype |-> message_type,
                    payload |-> payload, corr |-> correlation_id,
                    raised |-> raised,
                    id |-> IF raised = "none" THEN message_id ELSE "",
                    msgs |-> <<>>, mark_read |-> FALSE,
                    io |-> IF FaultReached(message, io) THEN io ELSE "ok"]
  /\ UNCHANGED <<rvars, vvars, cvars>>

\* mutant: the response is typed as a request
send_response_AsRequest(self, original_message, payload, io) ==
  send_message(self, original_message.from_agent, "request", payload,
               original_message.message_id, io, original_message)

\* mutant: the response goes back to the addressee of the original
send_response_ToAddressee(self, original_message, payload, io) ==
  send_message(self, original_message.to_agent, "response", payload,
               original_message.message_id, io, original_message)

send_response(self, original_message, payload, io) ==
  send_message(self, original_message.from_agent, "response", payload,
               original_message.message_id, io, original_message)

\* the orders in which glob may enumerate a directory
Orders(dir) ==
  {o \in [1..Cardinality(DOMAIN dir) -> DOMAIN dir] :
     \A i, j \in 1..Cardinality(DOMAIN dir) : o[i] = o[j] => i = j}

\* json.load of a file that is not a complete document raises, and the loop's
\* except clause prints and goes on to the next file
Readable(dir, name) == dir[name].complete

\* mutant: the loop stops after the first file
Loaded_HeadOnly(dir, order) ==
  IF order = <<>> \/ ~Readable(dir, Head(order)) THEN <<>>
  ELSE <<JsonLoad(dir[Head(order)].doc)>>

RECURSIVE Loaded(_, _)
Loaded(dir, order) ==
  IF order = <<>> THEN <<>>
  ELSE IF Readable(dir, Head(order))
       THEN <<JsonLoad(dir[Head(order)].doc)>> \o Loaded(dir, Tail(order))
       ELSE Loaded(dir, Tail(order))

\* mutant: the rename to read/ is left out
Moved_Never(dir, mark_read) == {}

\* mutant: the files are moved whatever mark_read says
Moved_Always(dir, mark_read) == {n \in DOMAIN dir : Readable(dir, n)}

\* the files message_file.rename moves to read/
Moved(dir, mark_read) ==
  IF mark_read THEN {n \in DOMAIN dir : Readable(dir, n)} ELSE {}

receive_messages(self, mark_read, order) ==
  /\ LET dir == inbox[self]
         moved == Moved(dir, mark_read)
     IN /\ inbox' = [inbox EXCEPT ![self] = Remove(dir, moved)]
        /\ read' = [read EXCEPT ![self] =
                      [n \in DOMAIN read[self] \cup moved |->
                         IF n \in moved THEN dir[n] ELSE read[self][n]]]
        /\ last' = [Idle EXCEPT !.op = "receive_messages", !.by = self, !.msgs = Loaded(dir, order),
                                !.mark_read = mark_read]
  /\ UNCHANGED <<outbox, issued>>
  /\ UNCHANGED <<rvars, vvars, cvars>>

\* the inbox as a receive sees it when open() fails for some files: the
\* except clause skips them as it skips a file that is not a document
Seen(dir, unopenable) ==
  [n \in DOMAIN dir |-> IF n \in unopenable THEN Partial ELSE dir[n]]

\* receive_messages on a filesystem that fails: open(message_file) raises for
\* the files of unopenable, mkdir or rename raises for those of unmovable;
\* each exception is caught by the loop's except clause and printed
receive_messages_io(self, mark_read, order, unopenable, unmovable) ==
  /\ LET dir == inbox[self]
         seen == Seen(dir, unopenable)
         moved == Moved(seen, mark_read) \ unmovable
     IN /\ inbox' = [inbox EXCEPT ![self] = Remove(dir, moved)]
        /\ read' = [read EXCEPT ![self] =
                      [n \in DOMAIN read[self] \cup moved |->
                         IF n \in moved THEN dir[n] ELSE read[self][n]]]
        /\ last' = [Idle EXCEPT !.op = "receive_messages", !.by = self,
                                !.msgs = Loaded(seen, order),
                                !.mark_read = mark_read, !.io = "fault"]
  /\ UNCHANGED <<outbox, issued>>
  /\ UNCHANGED <<rvars, vvars, cvars>>

\* the envelopes a caller can hold: any complete file of the mailbox tree
OnDisk ==
  UNION {{JsonLoad(d[a][n].doc) : n \in {m \in DOMAIN d[a] : d[a][m].complete}} :
           d \in {inbox, outbox, read}, a \in Agents}

SendMessage ==
  \E self \in Agents, to_agent \in Agents, message_type \in TypeInputs,
     payload \in Payloads, correlation_id \in CorrInputs :
    send_message(self, to_agent, message_type, payload, correlation_id, "ok", NoMsg)

SendResponse ==
  \E self \in Agents, original \in OnDisk, payload \in Payloads :
    send_response(self, original, payload, "ok")

\* a send on a filesystem that fails once during the call
SendMessageIOError ==
  \E self \in Agents, to_agent \in Agents, io \in IoFaults :
    send_message(self, to_agent, "request", PayloadNative, PyNone, io, NoMsg)


ReceiveMessages ==
  \E self \in Agents, mark_read \in BOOLEAN :
    \E order \in Orders(inbox[self]) :
      receive_messages(self, mark_read, order)

Next == SendMessage \/ SendResponse \/ ReceiveMessages

Spec == Init /\ [][Next]_vars

NextIO == Next \/ SendMessageIOError

SpecIO == Init /\ [][NextIO]_vars

\* a receive during which the filesystem fails for at least one file: a
\* file that cannot be opened, or one that was read and cannot be moved
ReceiveMessagesIOError ==
  \E self \in Agents, mark_read \in BOOLEAN :
    \E order \in Orders(inbox[self]) :
      \E unopenable \in SUBSET DOMAIN inbox[self] :
        \E unmovable \in SUBSET (DOMAIN inbox[self] \ unopenable) :
          /\ \/ \E n \in unopenable : Readable(inbox[self], n)
             \/ mark_read /\ \E n \in unmovable : Readable(inbox[self], n)
          /\ ~mark_read => unmovable = {}
          /\ receive_messages_io(self, mark_read, order, unopenable, unmovable)

NextFS == NextIO \/ ReceiveMessagesIOError

SpecFS == Init /\ [][NextFS]_vars

(***************************************************************************)
(* send_message and receive_messages, one file operation at a time         *)
(***************************************************************************)
ConcPayloads == {PayloadNative, PayloadSet}

\* the concurrent receives are receive_messages(mark_read=True)
ConcMarkRead == {TRUE}

\* mutant: the recipient's copy is written first
CopyDir_InboxFirst(step) == IF step = 1 THEN "inbox" ELSE "outbox"

\* the directory of the first and of the second copy send_message writes
CopyDir(step) == IF step = 1 THEN "outbox" ELSE "inbox"

\* the tree after file is put under the envelope's id in the directory of
\* this step: the sender's outbox or the recipient's inbox
Written(tree, dirname, message, file) ==
  LET owner == IF dirname = "outbox" THEN message.from_agent ELSE message.to_agent
  IN [tree EXCEPT ![owner] = Put(tree[owner], message.message_id, file)]

\* message_id = uuid4(), the dict, validate_output and the raise ValueError
SendBuild ==
  \E self \in Agents, to_agent \in {Consumer}, message_type \in TypeInputs,
     payload \in ConcPayloads :
    /\ sender.pc = "idle"
    /\ issued < MaxMsgs
    /\ issued' = issued + 1
    /\ LET message == BuildMessage(self, Uuid(issued + 1), to_agent, message_type,
                                   payload, PyNone)
       IN sender' = IF ValidMessage(message)
                    THEN [pc |-> "open", message |-> message, step |-> 1,
                          raised |-> "none", id |-> ""]
                    ELSE [SenderIdle EXCEPT !.raised = "ValueError"]
    /\ UNCHANGED <<inbox, outbox, read, last, readers>>
    /\ UNCHANGED <<rvars, vvars>>

\* open(outbox_file, 'w') / open(inbox_file, 'w'): the file exists, empty
SendOpen ==
  /\ sender.pc = "open"
  /\ outbox' = IF CopyDir(sender.step) = "outbox"
               THEN Written(outbox, "outbox", sender.message, Partial) ELSE outbox
  /\ inbox' = IF CopyDir(sender.step) = "inbox"
              THEN Written(inbox, "inbox", sender.message, Partial) ELSE inbox
  /\ sender' = [sender EXCEPT !.pc = "dump"]
  /\ UNCHANGED <<read, issued, last, readers>>
  /\ UNCHANGED <<rvars, vvars>>

\* json.dump(message, f) and the end of the with block: the document is
\* complete, or the encoder raised TypeError and the file stays cut short
SendDump ==
  /\ sender.pc = "dump"
  /\ LET file == IF CanDump(sender.message) THEN File(JsonDump(sender.message))
                 ELSE Partial
     IN /\ outbox' = IF CopyDir(sender.step) = "outbox"
                     THEN Written(outbox, "outbox", sender.message, file) ELSE outbox
        /\ inbox' = IF CopyDir(sender.step) = "inbox"
                    THEN Written(inbox, "inbox", sender.message, file) ELSE inbox
  /\ sender' = IF ~CanDump(sender.message)
               THEN [SenderIdle EXCEPT !.raised = "TypeError"]
               ELSE IF sender.step = 1
               THEN [sender EXCEPT !.pc = "open", !.step = 2]
               ELSE [SenderIdle EXCEPT !.id = sender.message.message_id]
  /\ UNCHANGED <<read, issued, last, readers>>
  /\ UNCHANGED <<rvars, vvars>>

\* open, mkdir or write raises OSError: the call ends where it is
SendOSError ==
  /\ sender.pc \in {"open", "dump"}
  /\ sender' = [SenderIdle EXCEPT !.raised = "OSError"]
  /\ UNCHANGED <<inbox, outbox, read, issued, last, readers>>
  /\ UNCHANGED <<rvars, vvars>>

\* mutant: an exception inside the loop ends the call
Caught_Propagates(exception) == exception

\* except Exception as e: print(...): the loop goes on
Caught(exception) == "none"

\* mutant: an envelope whose file could not be moved is taken off the list
AfterFailedMove_Dropped(msgs, name) ==
  SelectSeq(msgs, LAMBDA m : m.message_id # name)

\* the list after rename raised: the envelope was appended before the move
AfterFailedMove(msgs, name) == msgs

\* the reader after an exception in the loop body
AfterException(reader, exception) ==
  IF Caught(exception) = "none"
  THEN [reader EXCEPT !.pc = "loop", !.todo = Tail(reader.todo), !.cur = ""]
  ELSE [reader EXCEPT !.pc = "done", !.cur = "", !.raised = Caught(exception)]

\* self.inbox.glob("*.json"): the listing of the inbox, in some order
RecvGlob ==
  \E r \in Readers, mark_read \in ConcMarkRead :
    \E order \in Orders(inbox[Consumer]) :
      /\ readers[r].pc = "idle"
      /\ readers' = [readers EXCEPT ![r] =
                       [ReaderIdle EXCEPT !.pc = "loop", !.mark_read = mark_read,
                                          !.todo = order,
                                          !.listed = {n \in DOMAIN inbox[Consumer] :
                                                        inbox[Consumer][n].complete}]]
      /\ UNCHANGED <<inbox, outbox, read, issued, last, sender>>
      /\ UNCHANGED <<rvars, vvars>>

\* open(message_file), json.load(f), messages.append(message)
RecvOpen ==
  \E r \in Readers :
    /\ readers[r].pc = "loop"
    /\ readers[r].todo # <<>>
    /\ LET reader == readers[r]
           name == Head(reader.todo)
           dir == inbox[Consumer]
       IN readers' = [readers EXCEPT ![r] =
            IF name \notin DOMAIN dir
            THEN AfterException(reader, "FileNotFoundError")
            ELSE IF ~Readable(dir, name)
            THEN AfterException([reader EXCEPT !.partial = @ \cup {name}],
                                "JSONDecodeError")
            ELSE IF reader.mark_read
            THEN [reader EXCEPT !.msgs = Append(@, JsonLoad(dir[name].doc)),
                                !.pc = "rename", !.cur = name]
            ELSE [reader EXCEPT !.msgs = Append(@, JsonLoad(dir[name].doc)),
                                !.todo = Tail(@)]]
    /\ UNCHANGED <<inbox, outbox, read, issued, last, sender>>
    /\ UNCHANGED <<rvars, vvars>>

\* read_dir.mkdir(exist_ok=True); message_file.rename(read_dir / name)
RecvRename ==
  \E r \in Readers :
    /\ readers[r].pc = "rename"
    /\ LET reader == readers[r]
           name == reader.cur
           dir == inbox[Consumer]
       IN IF name \in DOMAIN dir
          THEN /\ inbox' = [inbox EXCEPT ![Consumer] = Remove(dir, {name})]
               /\ read' = [read EXCEPT ![Consumer] = Put(read[Consumer], name, dir[name])]
               /\ readers' = [readers EXCEPT ![r] =
                                [reader EXCEPT !.pc = "loop", !.todo = Tail(@),
                                               !.cur = ""]]
          ELSE /\ UNCHANGED <<inbox, read>>
               /\ readers' = [readers EXCEPT ![r] =
                                AfterException(
                                  [reader EXCEPT !.msgs = AfterFailedMove(@, name),
                                                 !.unmoved = @ \cup {name}],
                                  "FileNotFoundError")]
    /\ UNCHANGED <<outbox, issued, last, sender>>
    /\ UNCHANGED <<rvars, vvars>>

\* return messages
RecvReturn ==
  \E r \in Readers :
    /\ readers[r].pc = "loop"
    /\ readers[r].todo = <<>>
    /\ readers' = [readers EXCEPT ![r].pc = "done"]
    /\ UNCHANGED <<inbox, outbox, read, issued, last, sender>>
    /\ UNCHANGED <<rvars, vvars>>

NextConc ==
  \/ SendBuild \/ SendOpen \/ SendDump \/ SendOSError
  \/ RecvGlob \/ RecvOpen \/ RecvRename \/ RecvReturn

SpecConc == Init /\ [][NextConc]_vars

(***************************************************************************)
(* Properties of the mailbox                                               *)
(***************************************************************************)
IssuedIds == {Uuid(n) : n \in 1..issued}
InOutbox(id) == \E a \in Agents : id \in DOMAIN outbox[a]
InInboxOrRead(id) == \E b \in Agents : id \in DOMAIN inbox[b] \cup DOMAIN read[b]
IsSend(rec) == rec.op \in {"send_message", "send_response"}

\* the step is a call of send_message, direct or through send_response; its
\* arguments are in last'
SendStep == IsSend(last') /\ issued' = issued + 1
SendMessageStep == SendStep /\ last'.op = "send_message"
SendResponseStep == SendStep /\ last'.op = "send_response"
ReceiveStep == last'.op = "receive_messages"

\* the envelope the call built
Built ==
  BuildMessage(last'.by, Uuid(issued'), last'.to, last'.mtype, last'.payload,
               last'.corr)

\* C1: a send_message (also one made by send_response) whose envelope fails
\* validation raises ValueError and leaves every inbox, outbox and read
\* directory exactly as it was.
C1_InvalidSendWritesNothing ==
  [][(SendStep /\ ~ValidMessage(Built))
       => (last'.raised = "ValueError" /\ inbox' = inbox /\ outbox' = outbox /\ read' = read)]_vars

\* C1 witness: a send was rejected by validation while the mailbox tree
\* already held files
C1_Witness ==
  /\ IsSend(last)
  /\ last.raised = "ValueError"
  /\ \E a \in Agents : DOMAIN outbox[a] # {} /\ DOMAIN inbox[a] # {}

\* C2 as stated: in every reachable state a message id is in an outbox if and
\* only if it is in an inbox or read directory.
C2_BothCopiesOrNeither ==
  \A id \in IssuedIds : InOutbox(id) <=> InInboxOrRead(id)

\* C2 amended: every id in an inbox or read directory is in the outbox of the
\* envelope's sender, with the same content unless the inbox write was cut
\* short; the id a send returns is in both places; no call removes a copy.
\* (An id whose send raised after the first write stays in the outbox only.)
C2_InboxImpliesOutbox ==
  /\ [](\A b \in Agents : \A id \in DOMAIN inbox[b] \cup DOMAIN read[b] :
          \E a \in Agents :
            /\ id \in DOMAIN outbox[a]
            /\ outbox[a][id].complete
            /\ outbox[a][id].doc.from_agent = a
            /\ outbox[a][id].doc.to_agent = b
            /\ LET copy == IF id \in DOMAIN inbox[b] THEN inbox[b][id] ELSE read[b][id]
               IN copy.complete => copy = outbox[a][id])
  /\ []((IsSend(last) /\ last.raised = "none") =>
          /\ last.id \in DOMAIN outbox[last.by]
          /\ last.id \in DOMAIN inbox[last.to])
  /\ [][\A a \in Agents :
          /\ DOMAIN outbox[a] \subseteq DOMAIN outbox'[a]
          /\ DOMAIN inbox[a] \cup DOMAIN read[a]
               \subseteq DOMAIN inbox'[a] \cup DOMAIN read'[a]]_vars

\* C2 witness: one send left an outbox-only file and another delivered both
\* copies
C2_Witness ==
  /\ \E id \in IssuedIds : InOutbox(id) /\ ~InInboxOrRead(id)
  /\ \E id \in IssuedIds : InOutbox(id) /\ InInboxOrRead(id)

\* message.get("correlation_id")
CorrelationOf(message) ==
  IF message.correlation_id = Absent THEN PyNone ELSE message.correlation_id

\* the lists receive_messages can return to self in the state after the step
ReceivableNext(self) == {Loaded(inbox'[self], o) : o \in Orders(inbox'[self])}

\* the payload as JSON gives it back: tuples come back as lists
AsJsonDecodes(payload) ==
  IF payload = PayloadTuple THEN PayloadList ELSE payload

\* the envelopes receive_messages can have returned: those of the complete
\* files of the inbox and read directories
Received ==
  UNION {{JsonLoad(inbox[a][n].doc) : n \in {m \in DOMAIN inbox[a] : inbox[a][m].complete}}
           \cup {JsonLoad(read[a][n].doc) : n \in DOMAIN read[a]} : a \in Agents}

\* C3 as stated: after a send_message that succeeds on an empty inbox of B,
\* B.receive_messages() returns exactly one envelope, with the returned id,
\* the sent payload and the supplied correlation id.
C3_RoundTripIdentical ==
  [][(SendMessageStep /\ last'.raised = "none" /\ DOMAIN inbox[last'.to] = {})
       => \A msgs \in ReceivableNext(last'.to) :
            /\ Len(msgs) = 1
            /\ msgs[1].message_id = last'.id
            /\ msgs[1].payload = last'.payload
            /\ CorrelationOf(msgs[1]) = last'.corr]_vars

\* C3 amended: ... returns exactly one envelope, with the returned id, the
\* sent payload as JSON decodes it (tuples come back as lists; a payload of
\* JSON-native values comes back equal), and the supplied correlation id when
\* that is a non-empty string, no correlation id otherwise.
C3_RoundTripAsJson ==
  [][(SendMessageStep /\ last'.raised = "none" /\ DOMAIN inbox[last'.to] = {})
       => \A msgs \in ReceivableNext(last'.to) :
            /\ Len(msgs) = 1
            /\ msgs[1].message_id = last'.id
            /\ msgs[1].payload = AsJsonDecodes(last'.payload)
            /\ (last'.payload = PayloadNative => msgs[1].payload = last'.payload)
            /\ CorrelationOf(msgs[1]) = IF last'.corr = "" THEN PyNone ELSE last'.corr
            /\ msgs[1].from_agent = last'.by
            /\ msgs[1].to_agent = last'.to
            /\ msgs[1].message_type = last'.mtype]_vars

\* C3 witness: a send with a correlation id has just put the only file into
\* the recipient's inbox, its tuple stored as a list
C3_Witness ==
  /\ last.op = "send_message"
  /\ last.raised = "none"
  /\ last.payload = PayloadTuple
  /\ last.corr = "original-message-123"
  /\ DOMAIN inbox[last.to] = {last.id}
  /\ JsonLoad(inbox[last.to][last.id].doc).payload = PayloadList

\* C4: once receive_messages(mark_read=True) has returned, a receive by the
\* same agent straight after it returns the empty list, and every envelope
\* the first call returned is in the agent's read directory and not in its
\* inbox (whatever the inbox held, files cut short included).
C4_MarkReadDrains ==
  [][/\ (ReceiveStep /\ last'.mark_read)
        => /\ ReceivableNext(last'.by) = {<<>>}
           /\ \A i \in 1..Len(last'.msgs) :
                LET id == last'.msgs[i].message_id
                IN /\ id \in DOMAIN read'[last'.by]
                   /\ id \notin DOMAIN inbox'[last'.by]
                   /\ JsonLoad(read'[last'.by][id].doc) = last'.msgs[i]
           /\ Len(last'.msgs) =
                Cardinality({n \in DOMAIN inbox[last'.by] : inbox[last'.by][n].complete})
     /\ (/\ last.op = "receive_messages" /\ last.mark_read
         /\ ReceiveStep /\ last'.by = last.by)
        => last'.msgs = <<>>]_vars

\* C4 witness: a draining receive returned an envelope and left a file that
\* was cut short in the inbox
C4_Witness ==
  /\ last.op = "receive_messages"
  /\ last.mark_read
  /\ Len(last.msgs) >= 1
  /\ \E n \in DOMAIN inbox[last.by] : ~inbox[last.by][n].complete

Range(seq) == {seq[i] : i \in 1..Len(seq)}

\* C5: receive_messages(mark_read=False) changes no inbox, outbox or read
\* directory and returns the envelopes of the inbox; two such calls in a row
\* by one agent return the same set.
C5_PeekIdempotent ==
  [][/\ (ReceiveStep /\ ~last'.mark_read)
        => /\ inbox' = inbox /\ outbox' = outbox /\ read' = read
           /\ Range(last'.msgs) =
                {JsonLoad(inbox[last'.by][n].doc) :
                   n \in {m \in DOMAIN inbox[last'.by] : inbox[last'.by][m].complete}}
           /\ \A msgs \in ReceivableNext(last'.by) : Range(msgs) = Range(last'.msgs)
     /\ (/\ last.op = "receive_messages" /\ ~last.mark_read
         /\ ReceiveStep /\ ~last'.mark_read
         /\ last'.by = last.by)
        => Range(last'.msgs) = Range(last.msgs)]_vars

\* C5 witness: a receive that does not mark read returned two envelopes, which
\* are still in the inbox
C5_Witness ==
  /\ last.op = "receive_messages"
  /\ ~last.mark_read
  /\ Len(last.msgs) = 2
  /\ \A i \in 1..2 : last.msgs[i].message_id \in DOMAIN inbox[last.by]

\* the envelope send_response was given: the one whose id the call passes on
\* as correlation id
Original == CHOOSE e \in OnDisk : e.message_id = last'.corr

\* C6 as stated: for every received envelope m and payload p (a dict),
\* send_response(m, p) puts into the inbox of m.from_agent a response with
\* correlation_id m.message_id, to_agent m.from_agent and payload p, which the
\* next receive of m.from_agent returns (alone, if the inbox was empty).
C6_ResponseDelivered ==
  [][(SendResponseStep /\ Original \in Received /\ last'.payload.t = "dict")
       => /\ Uuid(issued') \in DOMAIN inbox'[Original.from_agent]
          /\ \A msgs \in ReceivableNext(Original.from_agent) :
               /\ \E i \in 1..Len(msgs) :
                    /\ msgs[i].message_type = "response"
                    /\ msgs[i].correlation_id = Original.message_id
                    /\ msgs[i].to_agent = Original.from_agent
                    /\ msgs[i].payload = last'.payload
               /\ DOMAIN inbox[Original.from_agent] = {} => Len(msgs) = 1]_vars

\* C6 amended: for every received envelope m and dict p, send_response(m, p)
\* returns an id exactly when json can serialise p; the inbox of m.from_agent
\* then holds under that id a response with correlation_id m.message_id,
\* to_agent m.from_agent and payload p as JSON decodes it (tuples as lists);
\* the next receive of m.from_agent returns it, and returns it alone if that
\* inbox was empty.  When json cannot serialise p the call raises and nothing
\* reaches the inbox.
C6_ResponseDeliveredAsJson ==
  [][(SendResponseStep /\ Original \in Received /\ last'.payload.t = "dict")
       => /\ (last'.raised = "none") <=> (last'.payload \in {PayloadNative, PayloadTuple})
          /\ (last'.raised # "none") => (last'.raised = "TypeError" /\ inbox' = inbox)
          /\ (last'.raised = "none") =>
               /\ last'.id = Uuid(issued')
               /\ last'.id \in DOMAIN inbox'[Original.from_agent]
               /\ \A msgs \in ReceivableNext(Original.from_agent) :
                    /\ \E i \in 1..Len(msgs) :
                         /\ msgs[i].message_id = last'.id
                         /\ msgs[i].message_type = "response"
                         /\ msgs[i].correlation_id = Original.message_id
                         /\ msgs[i].to_agent = Original.from_agent
                         /\ msgs[i].payload = AsJsonDecodes(last'.payload)
                    /\ DOMAIN inbox[Original.from_agent] = {} => Len(msgs) = 1]_vars

\* C6 witness: the requester's inbox holds exactly one file, the response to
\* a request it sent, which the addressee has read
C6_Witness ==
  /\ last.op = "send_response"
  /\ last.raised = "none"
  /\ last.by # last.to
  /\ DOMAIN inbox[last.to] = {last.id}
  /\ inbox[last.to][last.id].doc.message_type = "response"
  /\ inbox[last.to][last.id].doc.correlation_id \in DOMAIN read[last.by]
  /\ inbox[last.to][last.id].doc.correlation_id \in DOMAIN outbox[last.to]

\* the file a successful send left in the outbox of agent a
AuditCopy(a) == outbox'[a][last'.id].doc

\* C7 as stated: whoever calls send_response(original, payload) and whatever
\* envelope is passed, the response's from_agent is original.to_agent, its
\* audit copy is in the outbox of original.to_agent, and its to_agent, type
\* and correlation id are original.from_agent, "response", original.message_id.
C7_ResponseFromAddressee ==
  [][(SendResponseStep /\ last'.raised = "none")
       => /\ last'.id \in DOMAIN outbox'[Original.to_agent]
          /\ AuditCopy(Original.to_agent).from_agent = Original.to_agent
          /\ AuditCopy(Original.to_agent).to_agent = Original.from_agent
          /\ AuditCopy(Original.to_agent).message_type = "response"
          /\ AuditCopy(Original.to_agent).correlation_id = Original.message_id]_vars

\* C7 amended: send_response(original, payload) is a send by the messenger
\* that calls it: the response's from_agent is the caller's agent_name and its
\* audit copy is written to the caller's outbox (these are original.to_agent
\* when the caller is the addressee of original); its to_agent, type and
\* correlation id are original.from_agent, "response", original.message_id.
C7_ResponseFromCaller ==
  [][(SendResponseStep /\ last'.raised = "none")
       => /\ last'.id \in DOMAIN outbox'[last'.by]
          /\ \A a \in Agents \ {last'.by} : last'.id \notin DOMAIN outbox'[a]
          /\ AuditCopy(last'.by).from_agent = last'.by
          /\ AuditCopy(last'.by).to_agent = Original.from_agent
          /\ AuditCopy(last'.by).message_type = "response"
          /\ AuditCopy(last'.by).correlation_id = Original.message_id
          /\ last'.by = Original.to_agent =>
               AuditCopy(Original.to_agent).from_agent = Original.to_agent]_vars

\* C7 witness: a response sent by an agent that is not the addressee of the
\* envelope it answers
C7_Witness ==
  /\ last.op = "send_response"
  /\ last.raised = "none"
  /\ \E e \in OnDisk : e.message_id = last.corr /\ e.to_agent # last.by

Trees == {inbox, outbox, read}

\* C19: in every reachable state every envelope file of every agent's inbox,
\* outbox and read directory has message_type in {request, response,
\* notification, error}; a send_message with any other type tag raises
\* ValueError and no file of any directory bears the id drawn for it.
C19_TypeTagInEnum ==
  /\ \A d \in Trees, a \in Agents : \A n \in DOMAIN d[a] :
       d[a][n].complete => d[a][n].doc.message_type \in MessageTypeEnum
  /\ (IsSend(last) /\ last.mtype \notin MessageTypeEnum)
       => /\ last.raised = "ValueError"
          /\ last.id = ""
          /\ \A d \in Trees, a \in Agents : Uuid(issued) \notin DOMAIN d[a]

\* C19 witness: a send with a type tag outside the enumeration, made when an
\* earlier envelope is on disk
C19_Witness ==
  /\ IsSend(last)
  /\ last.mtype \notin MessageTypeEnum
  /\ last.raised = "ValueError"
  /\ issued = 2
  /\ \E a \in Agents : Uuid(1) \in DOMAIN outbox[a] /\ outbox[a][Uuid(1)].complete

\* C20: once a file is in a directory, a step changes nothing of it but for
\* the move of the recipient's copy from inbox to read by that recipient's
\* receive_messages(mark_read=True): a file of an outbox stays there with
\* its content, a file of an inbox stays with its content or is in read with
\* that content, a file of read stays with its content and is in no inbox.
C20_EnvelopeImmutable ==
  [][\A a \in Agents :
       /\ \A n \in DOMAIN outbox[a] :
            n \in DOMAIN outbox'[a] /\ outbox'[a][n] = outbox[a][n]
       /\ \A n \in DOMAIN inbox[a] :
            \/ /\ n \in DOMAIN inbox'[a] /\ inbox'[a][n] = inbox[a][n]
               /\ n \in DOMAIN read[a] <=> n \in DOMAIN read'[a]
            \/ /\ n \notin DOMAIN inbox'[a]
               /\ n \in DOMAIN read'[a] /\ read'[a][n] = inbox[a][n]
               /\ ReceiveStep /\ last'.by = a /\ last'.mark_read
       /\ \A n \in DOMAIN read[a] :
            /\ n \in DOMAIN read'[a] /\ read'[a][n] = read[a][n]
            /\ \A b \in Agents : n \notin DOMAIN inbox'[b]]_vars

\* C20 witness: an envelope was sent, received and moved to read; after a
\* later send both its copies are as they were written
C20_Witness ==
  /\ IsSend(last) /\ last.raised = "none"
  /\ \E a, b \in Agents :
       /\ Uuid(1) \in DOMAIN outbox[a] /\ Uuid(1) \in DOMAIN read[b]
       /\ outbox[a][Uuid(1)].complete
       /\ read[b][Uuid(1)] = outbox[a][Uuid(1)]
       /\ Uuid(1) \notin DOMAIN inbox[b]
       /\ last.id = Uuid(2)

Ids(dir) == DOMAIN dir

\* C21 as stated: for every agent the inbox, outbox and read directories
\* hold pairwise disjoint sets of message ids, whoever sent to whom, an
\* agent sending to itself included.
C21_PairwiseDisjoint ==
  \A a \in Agents :
    /\ Ids(inbox[a]) \cap Ids(read[a]) = {}
    /\ Ids(inbox[a]) \cap Ids(outbox[a]) = {}
    /\ Ids(read[a]) \cap Ids(outbox[a]) = {}

\* C21 amended: for every agent inbox and read are disjoint; an id of the
\* agent's outbox is also in its inbox or read directory only for an
\* envelope the agent sent to itself, and a send to oneself that returns
\* leaves the id in both the outbox and the inbox of the agent.
C21_InboxReadDisjoint ==
  /\ \A a \in Agents :
       /\ Ids(inbox[a]) \cap Ids(read[a]) = {}
       /\ \A id \in Ids(outbox[a]) \cap (Ids(inbox[a]) \cup Ids(read[a])) :
            /\ outbox[a][id].complete
            /\ outbox[a][id].doc.from_agent = a
            /\ outbox[a][id].doc.to_agent = a
  /\ (IsSend(last) /\ last.raised = "none" /\ last.to = last.by)
       => last.id \in Ids(outbox[last.by]) \cap Ids(inbox[last.by])

\* C21 witness: an agent sent an envelope to itself, received it, and sent
\* itself another: one id is in its outbox and read, the other in its outbox
\* and inbox
C21_Witness ==
  /\ IsSend(last) /\ last.raised = "none" /\ last.to = last.by
  /\ \E id \in Ids(read[last.by]) : id \in Ids(outbox[last.by])
  /\ last.id \in Ids(outbox[last.by]) \cap Ids(inbox[last.by])

ReturnedIds == {last'.msgs[i].message_id : i \in 1..Len(last'.msgs)}

\* C28: with the receive_messages(mark_read=True) calls of a consumer made
\* one after another, in any order with completed send_message calls of any
\* producers, every envelope sent to the consumer is returned by exactly one
\* of these calls, the first made after the send, and by no later one: a
\* completed send puts the id in the recipient's inbox only; a marking
\* receive returns every envelope of the inbox once and moves it to read; an
\* envelope in read stays there and is returned by no call; at all times an
\* envelope that was sent is in exactly one of the recipient's inbox and
\* read directories.
C28_ExactlyOnceSequential ==
  /\ [](\A a \in Agents : \A id \in Ids(outbox[a]) :
          outbox[a][id].complete =>
            LET b == outbox[a][id].doc.to_agent
            IN /\ id \in Ids(inbox[b]) \cup Ids(read[b])
               /\ ~(id \in Ids(inbox[b]) /\ id \in Ids(read[b])))
  /\ [][/\ (SendStep /\ last'.raised = "none")
             => /\ last'.id \notin Ids(inbox[last'.to]) \cup Ids(read[last'.to])
                /\ last'.id \in Ids(inbox'[last'.to])
                /\ last'.id \notin Ids(read'[last'.to])
        /\ ReceiveStep
             => /\ ReturnedIds = Ids(inbox[last'.by])
                /\ Len(last'.msgs) = Cardinality(Ids(inbox[last'.by]))
                /\ ReturnedIds \cap Ids(read[last'.by]) = {}
        /\ (ReceiveStep /\ last'.mark_read)
             => /\ ReturnedIds \subseteq Ids(read'[last'.by])
                /\ Ids(inbox'[last'.by]) = {}
        /\ \A b \in Agents : \A id \in Ids(read[b]) :
             id \in Ids(read'[b]) /\ id \notin Ids(inbox'[b])]_vars

\* C28 witness: the consumer's second marking receive returned the one
\* envelope sent since the first, which had returned an earlier one
C28_Witness ==
  /\ last.op = "receive_messages" /\ last.mark_read
  /\ Len(last.msgs) = 1
  /\ Cardinality(Ids(read[last.by])) = 2
  /\ Ids(inbox[last.by]) = {}
  /\ \A a \in Agents \ {last.by} : Ids(inbox[a]) \cup Ids(read[a]) = {}

\* C22: a filesystem failure during send_message or receive_messages (a
\* file that cannot be opened, written or moved) reaches the caller as an
\* I/O error: the call does not return normally, neither an id nor a list.
C22_IOErrorsPropagate ==
  (last.op \in {"send_message", "send_response", "receive_messages"}
     /\ last.io # "ok")
    => /\ last.raised = "OSError"
       /\ last.id = ""
       /\ last.msgs = <<>>

\* C22 witness: a marking receive during which the filesystem failed
\* returned normally with one envelope and left a readable file in the inbox
C22_Witness ==
  /\ last.op = "receive_messages" /\ last.mark_read
  /\ last.io = "fault"
  /\ last.raised = "none"
  /\ Len(last.msgs) = 1
  /\ \E n \in Ids(inbox[last.by]) : inbox[last.by][n].complete

(***************************************************************************)
(* Properties of concurrent calls                                          *)
(***************************************************************************)
Other(r) == CHOOSE q \in Readers : q # r
Returned(r) == {readers[r].msgs[i].message_id : i \in 1..Len(readers[r].msgs)}
Done(r) == readers[r].pc = "done"

\* C24: two receive_messages(mark_read=True) running concurrently on one
\* inbox can both return the same envelope: a reader that has loaded a file
\* keeps the envelope in its list when the other reader, who loaded it too,
\* moves the file first, so once both calls have returned the envelope is in
\* both lists.
C24_LostRaceStillReturns ==
  \A r \in Readers :
    \A name \in readers[r].unmoved :
      /\ name \in Returned(r)
      /\ name \in Returned(Other(r))
      /\ name \in Ids(read[Consumer])

\* C24 witness: both calls have returned, with the same envelope in both
\* lists
C24_Witness ==
  /\ \A r \in Readers : Done(r) /\ readers[r].mark_read
  /\ \E name \in Returned("r1") : name \in Returned("r2")

\* C25: send_message makes a file visible in the recipient's inbox only once
\* it is completely written, so no file of an inbox is ever partly written
\* and a receive_messages running concurrently with a send_message to the
\* same inbox never opens a partly written envelope.
C25_NoPartialFileVisible ==
  /\ \A r \in Readers : readers[r].partial = {}
  /\ (sender.pc # "idle") =>
       \A name \in Ids(inbox[sender.message.to_agent]) :
         inbox[sender.message.to_agent][name].complete

\* C25 witness: while the send is writing the inbox copy, a reader has
\* opened it and found no JSON document
C25_Witness ==
  /\ sender.pc = "dump" /\ sender.step = 2
  /\ \E r \in Readers : sender.message.message_id \in readers[r].partial

\* C27: send_message writes the sender's outbox copy before the recipient's
\* inbox copy: in every state, the middle of a send and the states after a
\* send that failed part-way included, every id in an inbox or read
\* directory is in the outbox of the envelope's from_agent, completely
\* written; no envelope is in an inbox only.
C27_OutboxCopyFirst ==
  /\ \A b \in Agents : \A name \in Ids(inbox[b]) \cup Ids(read[b]) :
       \E a \in Agents :
         /\ name \in Ids(outbox[a])
         /\ outbox[a][name].complete
         /\ outbox[a][name].doc.from_agent = a
         /\ outbox[a][name].doc.to_agent = b
  /\ (sender.pc # "idle" /\ sender.step = 2) =>
       /\ sender.message.message_id \in Ids(outbox[sender.message.from_agent])
       /\ outbox[sender.message.from_agent][sender.message.message_id].complete

\* C27 witness: a send failed while writing the inbox copy, which is cut
\* short, and the next send is between its two copies
C27_Witness ==
  /\ sender.pc = "open" /\ sender.step = 2
  /\ sender.message.message_id \notin Ids(inbox[Consumer])
  /\ \E name \in Ids(inbox[Consumer]) : ~inbox[Consumer][name].complete

\* C29: when two receive_messages(mark_read=True) run concurrently on one
\* inbox, in every interleaving neither call raises, and once both have
\* returned every envelope that was in the inbox when a call listed it is in
\* the list of at least one of them, is in the read directory and is no
\* longer in the inbox.
C29_NoEnvelopeLost ==
  /\ \A r \in Readers : readers[r].raised = "none"
  /\ (\A r \in Readers : Done(r) /\ readers[r].mark_read) =>
       \A r \in Readers : \A name \in readers[r].listed :
         /\ name \in Returned(r) \cup Returned(Other(r))
         /\ name \in Ids(read[Consumer])
         /\ name \notin Ids(inbox[Consumer])

\* C29 witness: both calls listed two envelopes and have returned; one
\* caught the exception of a file that was gone, and each of the two
\* envelopes is in a list and in read
C29_Witness ==
  /\ \A r \in Readers : Done(r) /\ Cardinality(readers[r].listed) = 2
  /\ Returned("r1") # Returned("r2")
  /\ Returned("r1") \cup Returned("r2") = readers["r1"].listed
  /\ Ids(read[Consumer]) = readers["r1"].listed

(***************************************************************************)
(* ModularAgent                                                            *)
(***************************************************************************)
\* ModularAgent.__init__ of an agent whose _register_core_skills registers
\* nothing and whose skill and workflow directories do not exist
InitReg == Init

\* the executable registered under a name, "" when there is none
FunctionOf(name) == IF name \in DOMAIN skills THEN skills[name].function ELSE ""

\* mutant: a name that is taken keeps its first skill
register_skill_KeepFirst(skill) ==
  /\ skills' = IF skill.enabled /\ skill.name \notin DOMAIN skills
               THEN [n \in DOMAIN skills \cup {skill.name} |->
                       IF n = skill.name THEN skill ELSE skills[n]]
               ELSE skills
  /\ UNCHANGED workflows
  /\ rlast' = [RIdle EXCEPT !.op = "register_skill", !.name = skill.name,
                            !.replaced = IF skill.enabled THEN FunctionOf(skill.name)
                                         ELSE ""]
  /\ UNCHANGED <<mvars, vvars, cvars>>

\* mutant: registering a skill drops the workflows that name it
register_skill_DropsWorkflows(skill) ==
  /\ skills' = IF skill.enabled
               THEN [n \in DOMAIN skills \cup {skill.name} |->
                       IF n = skill.name THEN skill ELSE skills[n]]
               ELSE skills
  /\ workflows' = [n \in {m \in DOMAIN workflows :
                             \A i \in 1..Len(workflows[m].skills) :
                               workflows[m].skills[i] # skill.name} |->
                     workflows[n]]
  /\ rlast' = [RIdle EXCEPT !.op = "register_skill", !.name = skill.name,
                            !.replaced = IF skill.enabled THEN FunctionOf(skill.name)
                                         ELSE ""]
  /\ UNCHANGED <<mvars, vvars, cvars>>

register_skill(skill) ==
  /\ skills' = IF skill.enabled
               THEN [n \in DOMAIN skills \cup {skill.name} |->
                       IF n = skill.name THEN skill ELSE skills[n]]
               ELSE skills
  /\ UNCHANGED workflows
  /\ rlast' = [RIdle EXCEPT !.op = "register_skill", !.name = skill.name,
                            !.replaced = IF skill.enabled THEN FunctionOf(skill.name)
                                         ELSE ""]
  /\ UNCHANGED <<mvars, vvars, cvars>>

\* mutant: no skill name is looked up at registration
MissingSkills_None(workflow) == <<>>

\* [s for s in workflow.skills if s not in self.skills]
MissingSkills(workflow) ==
  SelectSeq(workflow.skills, LAMBDA s : s \notin DOMAIN skills)

\* mutant: the early return is left out
register_workflow_NoReturn(workflow) ==
  /\ workflows' = [n \in DOMAIN workflows \cup {workflow.name} |->
                     IF n = workflow.name THEN workflow ELSE workflows[n]]
  /\ UNCHANGED skills
  /\ rlast' = [RIdle EXCEPT !.op = "register_workflow", !.name = workflow.name,
                            !.missing = MissingSkills(workflow)]
  /\ UNCHANGED <<mvars, vvars, cvars>>

register_workflow(workflow) ==
  /\ workflows' = IF MissingSkills(workflow) # <<>>
                  THEN workflows
                  ELSE [n \in DOMAIN workflows \cup {workflow.name} |->
                          IF n = workflow.name THEN workflow ELSE workflows[n]]
  /\ UNCHANGED skills
  /\ rlast' = [RIdle EXCEPT !.op = "register_workflow", !.name = workflow.name,
                            !.missing = MissingSkills(workflow)]
  /\ UNCHANGED <<mvars, vvars, cvars>>

\* mutant: a name that is not registered gives None instead of an error
ExecuteSkill_MissingGivesNone(skill_name, context) ==
  IF skill_name \notin DOMAIN skills
  THEN [raised |-> "none", isdict |-> FALSE, dict |-> EmptyDict, raw |-> "None",
        invoked |-> <<>>]
  ELSE LET function == skills[skill_name].function
           r == Call(function, context)
       IN [raised |-> IF r.raised THEN r.exc ELSE "none",
           isdict |-> r.isdict, dict |-> r.dict, raw |-> r.raw,
           invoked |-> <<function>>]

\* mutant: the executable's exception is wrapped in an error of the executor
ExecuteSkill_Wrapping(skill_name, context) ==
  IF skill_name \notin DOMAIN skills
  THEN [raised |-> "ValueError", isdict |-> FALSE, dict |-> EmptyDict, raw |-> "None",
        invoked |-> <<>>]
  ELSE LET function == skills[skill_name].function
           r == Call(function, context)
       IN [raised |-> IF r.raised THEN "SkillExecutionError" ELSE "none",
           isdict |-> r.isdict, dict |-> r.dict, raw |-> r.raw,
           invoked |-> <<function>>]

\* the outcome of execute_skill(skill_name, context=context): not found, or
\* the executable's own exception raised again, or its result unchanged
ExecuteSkill(skill_name, context) ==
  IF skill_name \notin DOMAIN skills
  THEN [raised |-> "ValueError", isdict |-> FALSE, dict |-> EmptyDict, raw |-> "None",
        invoked |-> <<>>]
  ELSE LET function == skills[skill_name].function
           r == Call(function, context)
       IN [raised |-> IF r.raised THEN r.exc ELSE "none",
           isdict |-> r.isdict, dict |-> r.dict, raw |-> r.raw,
           invoked |-> <<function>>]

execute_skill(skill_name, context) ==
  /\ LET r == ExecuteSkill(skill_name, context)
     IN rlast' = [RIdle EXCEPT !.op = "execute_skill", !.name = skill_name,
                               !.raised = r.raised, !.isdict = r.isdict,
                               !.dict = r.dict, !.raw = r.raw,
                               !.invoked = r.invoked, !.caller = Passed(context)]
  /\ UNCHANGED <<skills, workflows>>
  /\ UNCHANGED <<mvars, vvars, cvars>>

\* mutant: every result is stored under the skill's name
Merge_UnderSkillName(context, skill_name, r) ==
  SetItem(context, skill_name, IF r.isdict THEN "dict" ELSE r.raw)

\* the merge of one step's result into the context
Merge(context, skill_name, r) ==
  IF r.isdict THEN Update(context, r.dict) ELSE SetItem(context, skill_name, r.raw)

\* mutant: the loop goes on after a step that raised
RECURSIVE RunSteps_PastRaise(_, _, _)
RunSteps_PastRaise(steps, context, invoked) ==
  IF steps = <<>>
  THEN [raised |-> "none", context |-> context, invoked |-> invoked]
  ELSE LET r == ExecuteSkill(Head(steps), context)
       IN IF r.raised # "none"
          THEN [RunSteps_PastRaise(Tail(steps), context, invoked \o r.invoked)
                  EXCEPT !.raised = r.raised]
          ELSE RunSteps_PastRaise(Tail(steps), Merge(context, Head(steps), r),
                                  invoked \o r.invoked)

\* the loop of execute_workflow over the remaining skill names
RECURSIVE RunSteps(_, _, _)
RunSteps(steps, context, invoked) ==
  IF steps = <<>>
  THEN [raised |-> "none", context |-> context, invoked |-> invoked]
  ELSE LET r == ExecuteSkill(Head(steps), context)
       IN IF r.raised # "none"
          THEN [raised |-> r.raised, context |-> context,
                invoked |-> invoked \o r.invoked]
          ELSE RunSteps(Tail(steps), Merge(context, Head(steps), r),
                        invoked \o r.invoked)

\* context = context or {}: a dict that is not empty stays the caller's object
StartContext(arg) == IF arg.given /\ arg.dict # EmptyDict THEN arg.dict ELSE EmptyDict
Aliased(arg) == arg.given /\ arg.dict # EmptyDict

\* context['workflow_config'] = workflow.config
WithConfig(context, workflow) == SetItem(context, "workflow_config", workflow.config)

\* what execute_workflow(workflow_name, arg) does in the current state
ExecuteWorkflowOutcome(workflow_name, arg) ==
  IF workflow_name \notin DOMAIN workflows
  THEN [RIdle EXCEPT !.op = "execute_workflow", !.name = workflow_name,
                     !.raised = "ValueError", !.caller = arg]
  ELSE LET workflow == workflows[workflow_name]
           run == RunSteps(workflow.skills,
                           WithConfig(StartContext(arg), workflow), <<>>)
       IN [RIdle EXCEPT !.op = "execute_workflow", !.name = workflow_name,
                        !.raised = run.raised,
                        !.isdict = (run.raised = "none"),
                        !.dict = IF run.raised = "none" THEN run.context
                                 ELSE EmptyDict,
                        !.invoked = run.invoked,
                        !.caller = IF Aliased(arg) THEN Passed(run.context)
                                   ELSE arg]

execute_workflow(workflow_name, arg) ==
  /\ rlast' = ExecuteWorkflowOutcome(workflow_name, arg)
  /\ UNCHANGED <<skills, workflows>>
  /\ UNCHANGED <<mvars, vvars, cvars>>

RegisterSkill ==
  \E name \in SkillNames, function \in Functions, enabled \in BOOLEAN :
    register_skill(AgentSkill(name, function, enabled))

RegisterWorkflow ==
  \E name \in WorkflowNames, skill_list \in SkillLists, config \in Configs :
    register_workflow(AgentWorkflow(name, skill_list, config))

ExecuteSkillCall ==
  \E name \in SkillNames, arg \in ContextArgs :
    arg.given /\ execute_skill(name, arg.dict)

ExecuteWorkflow ==
  \E name \in WorkflowNames, arg \in ContextArgs :
    execute_workflow(name, arg)

NextReg == RegisterSkill \/ RegisterWorkflow \/ ExecuteSkillCall \/ ExecuteWorkflow

SpecReg == InitReg /\ [][NextReg]_vars

(***************************************************************************)
(* Properties of the registry                                              *)
(***************************************************************************)
SkillInputs ==
  {AgentSkill(n, f, e) : n \in SkillNames, f \in Functions, e \in BOOLEAN}

WorkflowInputs ==
  {AgentWorkflow(n, l, c) : n \in WorkflowNames, l \in SkillLists, c \in Configs}

\* the executables a stored workflow runs, in order
FunctionsOf(workflow) ==
  [i \in 1..Len(workflow.skills) |-> skills[workflow.skills[i]].function]

\* C8 as stated: register_workflow of a workflow that names a skill absent
\* from the registry raises nothing, changes neither registry, and leaves the
\* registry with no workflow of that name, so that an execute_workflow of that
\* name fails with not-found, whatever was registered before.  (The registry
\* being unchanged, the outcome of that execute_workflow is the one computed
\* from the registry as it stands.)
C8_MissingSkillNotFound ==
  [][\A w \in WorkflowInputs :
       (register_workflow(w) /\ MissingSkills(w) # <<>>)
         => /\ rlast'.raised = "none"
            /\ skills' = skills
            /\ workflows' = workflows
            /\ w.name \notin DOMAIN workflows'
            /\ \A arg \in ContextArgs :
                 ExecuteWorkflowOutcome(w.name, arg).raised = "ValueError"]_vars

\* C8 amended: register_workflow of a workflow that names a skill absent from
\* the registry raises nothing, lists the absent skills, and changes neither
\* registry: the workflow is not stored, and a workflow stored earlier under
\* the same name stays as it was.  An execute_workflow of that name fails
\* with not-found exactly when no earlier registration stored a workflow
\* under the name; otherwise it runs the earlier workflow.
C8_MissingSkillStoresNothing ==
  [][/\ \A w \in WorkflowInputs :
          (register_workflow(w) /\ MissingSkills(w) # <<>>)
            => /\ rlast'.raised = "none"
               /\ rlast'.missing = MissingSkills(w)
               /\ skills' = skills
               /\ workflows' = workflows
               /\ \A n \in DOMAIN workflows' : workflows'[n] # w
               /\ w.name \in DOMAIN workflows' <=> w.name \in DOMAIN workflows
     /\ \A arg \in ContextArgs :
          (/\ rlast.op = "register_workflow"
           /\ rlast.missing # <<>>
           /\ execute_workflow(rlast.name, arg))
            => /\ (rlast'.raised = "ValueError" /\ rlast'.invoked = <<>>)
                    <=> rlast.name \notin DOMAIN workflows
               /\ (rlast.name \in DOMAIN workflows /\ rlast'.raised = "none") =>
                    rlast'.invoked = FunctionsOf(workflows[rlast.name])]_vars

\* C8 witness: a registration was refused for one absent skill while another
\* skill was registered, and no workflow is stored under the name
C8_Witness ==
  /\ rlast.op = "register_workflow"
  /\ Len(rlast.missing) = 1
  /\ DOMAIN skills # {}
  /\ rlast.name \notin DOMAIN workflows

\* C9: register_skill(s) maps s.name to s when s is enabled, whatever was
\* under the name, and changes nothing when s is disabled; it raises nothing
\* and leaves the other names alone; execute_skill invokes the executable
\* registered last under the name and no other.
C9_LastWriteWins ==
  [][/\ \A s \in SkillInputs :
          register_skill(s)
            => /\ rlast'.raised = "none"
               /\ workflows' = workflows
               /\ \A n \in DOMAIN skills \ {s.name} :
                    n \in DOMAIN skills' /\ skills'[n] = skills[n]
               /\ s.enabled =>
                    /\ DOMAIN skills' = DOMAIN skills \cup {s.name}
                    /\ skills'[s.name] = s
               /\ ~s.enabled => skills' = skills
     /\ \A n \in SkillNames, arg \in ContextArgs :
          (arg.given /\ execute_skill(n, arg.dict) /\ n \in DOMAIN skills)
            => rlast'.invoked = <<skills[n].function>>
     /\ \A arg \in ContextArgs :
          (/\ rlast.op = "register_skill"
           /\ rlast.replaced # ""
           /\ rlast.replaced # FunctionOf(rlast.name)
           /\ arg.given /\ execute_skill(rlast.name, arg.dict))
            => /\ rlast'.invoked = <<FunctionOf(rlast.name)>>
               /\ \A i \in 1..Len(rlast'.invoked) : rlast'.invoked[i] # rlast.replaced]_vars

\* C9 witness: a registration took the place of a skill with another
\* executable
C9_Witness ==
  /\ rlast.op = "register_skill"
  /\ rlast.replaced # ""
  /\ rlast.name \in DOMAIN skills
  /\ rlast.replaced # skills[rlast.name].function

\* the context after the steps, step by step: a dict result goes in key by
\* key, anything else goes under the skill's name
RECURSIVE Stepwise(_, _)
Stepwise(steps, context) ==
  IF steps = <<>> THEN context
  ELSE LET result == Call(skills[Head(steps)].function, context)
           merged ==
             IF result.isdict
             THEN [k \in DOMAIN context \cup DOMAIN result.dict |->
                     IF k \in DOMAIN result.dict THEN result.dict[k] ELSE context[k]]
             ELSE [k \in DOMAIN context \cup {Head(steps)} |->
                     IF k = Head(steps) THEN result.raw ELSE context[k]]
       IN Stepwise(Tail(steps), merged)

\* ctx with the reserved key set to the workflow's configuration
Configured(arg, workflow) ==
  [k \in DOMAIN arg.dict \cup {"workflow_config"} |->
     IF k = "workflow_config" THEN workflow.config ELSE arg.dict[k]]

\* C10: when no step raises, execute_workflow(W, ctx) returns ctx with
\* workflow_config set to W's configuration first (the first skill sees it)
\* and then each step's result merged in order, a dict key by key with later
\* values winning, anything else under the skill's name; skills returning
\* {x:1} and {y:2} give a context with x=1 and y=2.
C10_ContextMerge ==
  [][\A name \in WorkflowNames, arg \in ContextArgs :
       (execute_workflow(name, arg) /\ name \in DOMAIN workflows
          /\ rlast'.raised = "none")
         => LET W == workflows[name]
                result == rlast'.dict
            IN /\ rlast'.isdict
               /\ result = Stepwise(W.skills, Configured(arg, W))
               /\ "workflow_config" \in DOMAIN result
               /\ rlast'.invoked = FunctionsOf(W)
               /\ FunctionsOf(W) = <<"ret_x1", "ret_y2">> =>
                    result["x"] = "1" /\ result["y"] = "2"
               /\ (W.skills # <<>> /\ FunctionsOf(W)[1] = "see_config") =>
                    result["seen"] = W.config
               /\ FunctionsOf(W) = <<"ret_x1", "ret_x9">> => result["x"] = "9"
               /\ (FunctionsOf(W) = <<"ret_raw">> /\ W.skills[1] \notin DOMAIN arg.dict) =>
                    result[W.skills[1]] = "7"
               /\ (W.skills = <<>>) => result = Configured(arg, W)]_vars

\* C10 witness: a workflow of two skills returning {x:1} and {y:2} has run on
\* a context that held x=0
C10_Witness ==
  /\ rlast.op = "execute_workflow"
  /\ rlast.raised = "none"
  /\ rlast.invoked = <<"ret_x1", "ret_y2">>
  /\ rlast.caller = Passed(rlast.dict)
  /\ rlast.dict["x"] = "1"
  /\ rlast.dict["y"] = "2"
  /\ "workflow_config" \in DOMAIN rlast.dict

\* the executable raises when called (none of the executables looks at its
\* context to decide)
RaisesWhenCalled(function) == Call(function, EmptyDict).raised

\* the steps a run gets to: all of them, or those up to the first that raises
LastStep(functions) ==
  LET raising == {i \in 1..Len(functions) : RaisesWhenCalled(functions[i])}
  IN IF raising = {} THEN Len(functions)
     ELSE CHOOSE i \in raising : \A j \in raising : i <= j

\* C11: a run of execute_workflow invokes the executables of the workflow's
\* skill list one after the other in the declared order, each step once,
\* none skipped, and stops at the first that raises: it ends completed
\* (returns) when no step raised and failed (raises) at the first raising
\* step, after which no further step is invoked.
C11_StepsInDeclaredOrder ==
  [][\A name \in WorkflowNames, arg \in ContextArgs :
       (execute_workflow(name, arg) /\ name \in DOMAIN workflows)
         => LET F == FunctionsOf(workflows[name])
                last_step == LastStep(F)
            IN /\ rlast'.invoked = SubSeq(F, 1, last_step)
               /\ \A i \in 1..Len(rlast'.invoked) :
                    RaisesWhenCalled(rlast'.invoked[i]) => i = Len(rlast'.invoked)
               /\ (rlast'.raised = "none")
                    <=> (\A i \in 1..Len(F) : ~RaisesWhenCalled(F[i]))
               /\ (rlast'.raised = "none") => rlast'.invoked = F
               /\ (rlast'.raised # "none") =>
                    /\ rlast'.invoked # <<>>
                    /\ RaisesWhenCalled(rlast'.invoked[Len(rlast'.invoked)])
               /\ skills' = skills /\ workflows' = workflows]_vars

\* C11 witness: a run of a workflow of two steps failed at its first step,
\* and its second step, which would have returned, was not invoked
C11_Witness ==
  /\ rlast.op = "execute_workflow"
  /\ rlast.raised = "RuntimeError"
  /\ rlast.name \in DOMAIN workflows
  /\ Len(workflows[rlast.name].skills) = 2
  /\ rlast.invoked = <<"boom">>
  /\ ~RaisesWhenCalled(FunctionsOf(workflows[rlast.name])[2])

\* the shared context when step LastStep raises: ctx with workflow_config
\* set and the results of the steps before it merged in
PartialContext(arg, workflow) ==
  Stepwise(SubSeq(workflow.skills, 1, LastStep(FunctionsOf(workflow)) - 1),
           Configured(arg, workflow))

\* C12: when a step of execute_workflow(W, ctx) raises, the caller is left
\* holding the shared context as the steps before it changed it (nothing is
\* rolled back), whether ctx was absent, an empty dict or a dict with
\* entries.
C12_PartialContextExposed ==
  [][\A name \in WorkflowNames, arg \in ContextArgs :
       (execute_workflow(name, arg) /\ name \in DOMAIN workflows
          /\ rlast'.raised = "RuntimeError")
         => /\ rlast'.caller.given
            /\ rlast'.caller.dict = PartialContext(arg, workflows[name])]_vars

\* C12 failing case: a run on an empty dict failed at its second step; the
\* first step had returned {x: 1}, and the caller's dict is still empty
C12_Witness ==
  /\ rlast.op = "execute_workflow"
  /\ rlast.raised = "RuntimeError"
  /\ rlast.invoked = <<"ret_x1", "boom">>
  /\ rlast.caller = Passed(EmptyDict)

\* the exception the executable raises when called, "none" if it returns
ExceptionOf(function) == Call(function, EmptyDict).exc

C14_NotFoundTouchesNothing ==
  [][/\ \A n \in SkillNames, arg \in ContextArgs :
          (arg.given /\ execute_skill(n, arg.dict) /\ n \notin DOMAIN skills)
            => /\ rlast'.raised = "ValueError"
               /\ rlast'.invoked = <<>>
               /\ ~rlast'.isdict /\ rlast'.dict = EmptyDict /\ rlast'.raw = "None"
               /\ rlast'.caller = arg
               /\ skills' = skills /\ workflows' = workflows
     /\ \A name \in WorkflowNames, arg \in ContextArgs :
          (execute_workflow(name, arg) /\ name \notin DOMAIN workflows)
            => /\ rlast'.raised = "ValueError"
               /\ rlast'.invoked = <<>>
               /\ ~rlast'.isdict /\ rlast'.dict = EmptyDict
               /\ rlast'.caller = arg
               /\ skills' = skills /\ workflows' = workflows
     /\ \A n \in SkillNames, arg \in ContextArgs :
          (/\ rlast.op \in {"execute_skill", "execute_workflow"}
           /\ rlast.raised = "ValueError"
           /\ arg.given /\ execute_skill(n, arg.dict) /\ n \in DOMAIN skills)
            => /\ rlast'.invoked = <<skills[n].function>>
               /\ rlast'.raised = ExceptionOf(skills[n].function)
               /\ rlast'.isdict = Call(skills[n].function, arg.dict).isdict
               /\ rlast'.dict = Call(skills[n].function, arg.dict).dict]_vars

\* C14 witness: execute_workflow of an unregistered name failed on a context
\* with entries while skills were registered
C14_Witness ==
  /\ rlast.op = "execute_workflow"
  /\ rlast.raised = "ValueError"
  /\ rlast.invoked = <<>>
  /\ rlast.caller = Passed(DictOf("x", "0"))
  /\ DOMAIN skills # {}

StepNames(workflow) == {workflow.skills[i] : i \in 1..Len(workflow.skills)}

\* C26: in every reachable state of the registry every skill name listed by
\* every stored workflow is a key of the skill registry, and no call removes
\* a skill; an execute_workflow fails with not-found only when the workflow
\* itself is not registered, never for a skill at one of its steps.
C26_StoredWorkflowsResolvable ==
  /\ [](\A n \in DOMAIN workflows : StepNames(workflows[n]) \subseteq DOMAIN skills)
  /\ []((rlast.op = "execute_workflow" /\ rlast.raised = "ValueError")
          => rlast.name \notin DOMAIN workflows)
  /\ [][DOMAIN skills \subseteq DOMAIN skills']_vars

\* C26 witness: a stored workflow of two different skills ran both steps
C26_Witness ==
  /\ rlast.op = "execute_workflow"
  /\ rlast.name \in DOMAIN workflows
  /\ Cardinality(StepNames(workflows[rlast.name])) = 2
  /\ Len(rlast.invoked) = 2
  /\ rlast.raised = "none"

\* C30: a workflow stores skill names: each step of execute_workflow invokes
\* the executable registered under the step's name when the run is made, so
\* a skill registered again after the workflow was stored is the one later
\* runs invoke; register_skill, execute_skill and execute_workflow leave
\* every stored workflow, its skill list included, as it was.
C30_StepsResolvedAtRun ==
  [][/\ \A s \in SkillInputs :
          register_skill(s)
            => /\ workflows' = workflows
               /\ s.enabled =>
                    \A n \in DOMAIN workflows' :
                      \A i \in 1..Len(workflows'[n].skills) :
                        workflows'[n].skills[i] = s.name
                          => skills'[workflows'[n].skills[i]].function = s.function
     /\ rlast'.op \in {"execute_skill", "execute_workflow"} => workflows' = workflows
     /\ \A arg \in ContextArgs :
          (/\ rlast.op = "register_skill"
           /\ rlast.replaced # ""
           /\ rlast.replaced # FunctionOf(rlast.name)
           /\ "audit" \in DOMAIN workflows
           /\ workflows["audit"].skills # <<>>
           /\ workflows["audit"].skills[1] = rlast.name
           /\ execute_workflow("audit", arg))
            => /\ rlast'.invoked # <<>>
               /\ rlast'.invoked[1] = FunctionOf(rlast.name)
               /\ rlast'.invoked[1] # rlast.replaced]_vars

\* C30 witness: a skill that a stored workflow names at its first step was
\* registered again with another executable
C30_Witness ==
  /\ rlast.op = "register_skill"
  /\ rlast.replaced # ""
  /\ rlast.replaced # FunctionOf(rlast.name)
  /\ "audit" \in DOMAIN workflows
  /\ Len(workflows["audit"].skills) = 2
  /\ workflows["audit"].skills[1] = rlast.name

(***************************************************************************)
(* SchemaValidator, create_agent_output and the agents' run()              *)
(***************************************************************************)
\* a deployment holds the schema documents or lacks the output schema
InitVal ==
  /\ inbox = [a \in Agents |-> EmptyDir]
  /\ outbox = [a \in Agents |-> EmptyDir]
  /\ read = [a \in Agents |-> EmptyDir]
  /\ issued = 0
  /\ last = Idle
  /\ skills = EmptySkills
  /\ workflows = EmptyWorkflows
  /\ rlast = RIdle
  /\ store \in {InstalledSchemas, InstalledSchemas \ {OutputSchema}}
  /\ schemas_cache = {}
  /\ vlast = VIdle
  /\ sender = SenderIdle
  /\ readers = [r \in Readers |-> ReaderIdle]

\* load_schema: the cached document, or the file of the schemas directory
LoadRaises(schema_name) ==
  IF schema_name \in schemas_cache THEN "none"
  ELSE IF schema_name \notin store THEN "FileNotFoundError"
  ELSE "none"

\* mutant: the name is cached whether or not the document was found
CacheAfterLoad_Always(schema_name) == schemas_cache \cup {schema_name}

\* how many times the call looks into the schemas directory: a cached name
\* is returned before the path is built
StoreReads(schema_name) == IF schema_name \in schemas_cache THEN 0 ELSE 1

CacheAfterLoad(schema_name) ==
  IF LoadRaises(schema_name) = "none"
  THEN schemas_cache \cup {schema_name} ELSE schemas_cache

\* jsonschema.validate raises one ValidationError, for one of the violated
\* constraints, or returns
Raisable(instance) ==
  IF Violations(instance) = {} THEN {NoViolation} ELSE Violations(instance)

\* the ValidationError handler: one formatted entry per element of the
\* error's absolute path, the error itself formatted each time; one entry
\* when the path is empty
Collected(e) ==
  [i \in 1..(IF Len(e.path) = 0 THEN 1 ELSE Len(e.path)) |-> FormatError(e)]

Verdict(raised, ok, errors) == [raised |-> raised, ok |-> ok, errors |-> errors]

validate_output_NoCatchAll(instance, schema_name, e) ==
  IF LoadRaises(schema_name) # "none"
  THEN Verdict(LoadRaises(schema_name), FALSE, <<>>)
  ELSE IF Violations(instance) = {} THEN Verdict("none", TRUE, <<>>)
  ELSE Verdict("none", FALSE, Collected(e))

\* validate_output(output, schema_name), e the error jsonschema raises if
\* the instance violates the schema
validate_output(instance, schema_name, e) ==
  IF LoadRaises(schema_name) # "none"
  THEN Verdict("none", FALSE, <<FormatException("Schema not found")>>)
  ELSE IF Violations(instance) = {} THEN Verdict("none", TRUE, <<>>)
  ELSE Verdict("none", FALSE, Collected(e))

CategoryInputs == {"security", "performance", "invalid_category"}
ResultInputs == {"{}", "{'security_issues': []}"}

\* create_agent_output(agent_name, agent_version, category, results, ...)
create_agent_output(category, results) ==
  Output("1.0.0", category, "success", results)

\* the envelope run() builds when the library could not be imported
FallbackOutput(results) == Output("1.0.0", "security", "success", results)

\* load_schema(schema_name) of the global validator
LoadSchema ==
  \E schema_name \in SchemaNames :
    /\ vlast' = [VIdle EXCEPT !.op = "load_schema", !.schema_name = schema_name,
                              !.raised = LoadRaises(schema_name),
                              !.reads = StoreReads(schema_name)]
    /\ schemas_cache' = CacheAfterLoad(schema_name)
    /\ UNCHANGED store
    /\ UNCHANGED <<mvars, rvars, cvars>>

\* validate_output(output, schema_name) of the global validator
ValidateOutput ==
  \E instance \in Instances, schema_name \in SchemaNames :
    \E e \in Raisable(instance) :
      LET v == validate_output(instance, schema_name, e) IN
        /\ vlast' = [op |-> "validate_output", instance |-> instance,
                     schema_name |-> schema_name, raised |-> v.raised,
                     ok |-> v.ok, errors |-> v.errors,
                     returned |-> NoInstance, warned |-> FALSE,
                     builder |-> "", validated |-> TRUE,
                     reads |-> StoreReads(schema_name)]
        /\ schemas_cache' = CacheAfterLoad(schema_name)
        /\ UNCHANGED store
        /\ UNCHANGED <<mvars, rvars, cvars>>

CreateAgentOutput ==
  \E category \in CategoryInputs, results \in ResultInputs :
    /\ vlast' = [op |-> "create_agent_output", instance |-> NoInstance,
                 schema_name |-> "", raised |-> "none", ok |-> FALSE,
                 errors |-> <<>>,
                 returned |-> create_agent_output(category, results),
                 warned |-> FALSE, builder |-> "create_agent_output",
                 validated |-> FALSE, reads |-> 0]
    /\ UNCHANGED <<store, schemas_cache>>
    /\ UNCHANGED <<mvars, rvars, cvars>>

\* SecurityAgent.run: build the envelope, validate it when the library was
\* imported, print a warning when it is not valid, return the envelope
Run ==
  \E results \in ResultInputs, imported \in BOOLEAN :
    LET output == IF imported THEN create_agent_output("security", results)
                  ELSE FallbackOutput(results)
    IN \E e \in Raisable(output) :
         LET v == validate_output(output, OutputSchema, e) IN
           /\ vlast' = [op |-> "run", instance |-> output,
                        schema_name |-> OutputSchema, raised |-> "none",
                        ok |-> IF imported THEN v.ok ELSE FALSE,
                        errors |-> IF imported THEN v.errors ELSE <<>>,
                        returned |-> output,
                        warned |-> imported /\ ~v.ok,
                        builder |-> IF imported THEN "create_agent_output"
                                    ELSE "fallback",
                        validated |-> imported,
                        reads |-> IF imported THEN StoreReads(OutputSchema)
                                  ELSE 0]
           /\ schemas_cache' = IF imported THEN CacheAfterLoad(OutputSchema)
                               ELSE schemas_cache
           /\ UNCHANGED store
           /\ UNCHANGED <<mvars, rvars, cvars>>

NextVal == LoadSchema \/ ValidateOutput \/ CreateAgentOutput \/ Run

SpecVal == InitVal /\ [][NextVal]_vars

(***************************************************************************)
(* Properties of the gateway and of the output builder                     *)
(***************************************************************************)
IsValidation == vlast.op = "validate_output"

\* C15: validate_output never raises, whatever the instance (an object,
\* null, a list, a string) and whatever the schema name, one missing from
\* the schema store included: it returns (ok, errors) where errors is empty
\* exactly when ok is true and has at least one entry when ok is false; ok
\* is true exactly when the schema is in the store and the instance violates
\* none of its constraints.
C15_ValidateNeverRaises ==
  IsValidation =>
    /\ vlast.raised = "none"
    /\ vlast.ok <=> vlast.errors = <<>>
    /\ ~vlast.ok => Len(vlast.errors) >= 1
    /\ vlast.ok <=> /\ vlast.schema_name \in store
                    /\ Violations(vlast.instance) = {}

\* null validated against a schema that is not in the store
C15_Witness ==
  /\ IsValidation
  /\ vlast.instance.kind = "null"
  /\ vlast.schema_name \notin store
  /\ vlast.raised = "none"
  /\ ~vlast.ok
  /\ vlast.errors = <<FormatException("Schema not found")>>

Reported == {vlast.errors[i] : i \in DOMAIN vlast.errors}

\* C16: when the instance violates k >= 1 constraints of the schema,
\* validate_output returns exactly k error strings, one for each violated
\* constraint, none omitted and none repeated, each naming the path of its
\* violation.
C16_OneErrorPerViolation ==
  IsValidation /\ vlast.schema_name \in store
               /\ Violations(vlast.instance) # {} =>
    /\ Len(vlast.errors) = Cardinality(Violations(vlast.instance))
    /\ Reported = {FormatError(v) : v \in Violations(vlast.instance)}

\* an object that lacks three required keys, reported as one error
C16_Witness ==
  /\ IsValidation
  /\ vlast.schema_name \in store
  /\ vlast.instance = Output("1.0.0", Absent, Absent, Absent)
  /\ Cardinality(Violations(vlast.instance)) = 3
  /\ Len(vlast.errors) = 1

\* C17: the gateway is a mandatory emission gate: an output envelope built
\* by create_agent_output and returned by an agent's run() has passed
\* validate_output against the output schema; an envelope that fails is not
\* returned, and the failure is not downgraded to a warning.
C17_GatewayMandatory ==
  vlast.op = "run" /\ vlast.builder = "create_agent_output"
                   /\ vlast.returned # NoInstance =>
    /\ vlast.validated
    /\ vlast.schema_name = OutputSchema
    /\ vlast.ok
    /\ ~vlast.warned

\* run() returned an envelope the gateway rejected, with a warning
C17_Witness ==
  /\ vlast.op = "run"
  /\ vlast.builder = "create_agent_output"
  /\ vlast.validated /\ ~vlast.ok /\ vlast.warned
  /\ vlast.returned = create_agent_output("security", "{}")

\* C18: every envelope the output builder returns, for every combination of
\* its arguments and whether run() or another caller asked for it, violates
\* no constraint of the output schema: validate_output gives (True, [])
\* for it.
C18_BuiltEnvelopesValid ==
  vlast.builder = "create_agent_output" =>
    Violations(vlast.returned) = {}

\* create_agent_output returned an envelope whose category is not in the
\* schema's enumeration
C18_Witness ==
  /\ vlast.op = "create_agent_output"
  /\ vlast.returned = create_agent_output("invalid_category", "{}")
  /\ Violations(vlast.returned) =
       {Violation(<<"agent", "category">>, "enum", "category")}

LoadStep == vlast'.op = "load_schema"

\* C23: on the validator, once load_schema(n) has succeeded every later
\* load_schema(n) returns the cached document without looking into the
\* schema store and without adding a cache entry; load_schema of a name that
\* is not in the store raises not-found and leaves the cache as it was; the
\* cache holds only names that were loaded successfully and never loses one.
C23_CacheServesLaterLoads ==
  [][/\ LoadStep =>
          /\ vlast'.schema_name \in schemas_cache
               => /\ vlast'.raised = "none"
                  /\ vlast'.reads = 0
                  /\ schemas_cache' = schemas_cache
          /\ vlast'.schema_name \notin schemas_cache => vlast'.reads = 1
          /\ vlast'.schema_name \notin store
               => /\ vlast'.raised = "FileNotFoundError"
                  /\ schemas_cache' = schemas_cache
          /\ vlast'.raised = "none" => vlast'.schema_name \in schemas_cache'
     /\ schemas_cache \subseteq schemas_cache'
     /\ schemas_cache' \subseteq store
     /\ schemas_cache' \subseteq schemas_cache \cup {vlast'.schema_name}]_vars

\* C23 witness: a load of a name that an earlier call had cached
C23_Witness ==
  /\ vlast.op = "load_schema"
  /\ vlast.schema_name \in schemas_cache
  /\ vlast.reads = 0
  /\ vlast.raised = "none"

====
